---- MODULE Spec2Model ----
(***************************************************************************)
(* Model of wikari's UDP engine (src/src/bulb.ts, src/src/wikari-error.ts):*)
(* the process-wide connection state shared by every Bulb, the waiting     *)
(* and non-waiting forms of sendRaw, the subscription acknowledgement      *)
(* listener, the command wrappers and discover().                          *)
(*                                                                         *)
(* Node's event loop runs one callback at a time, so every action below is *)
(* one callback (or one synchronous API call) together with the promise    *)
(* continuations (microtasks) it releases.                                 *)
(***************************************************************************)
EXTENDS Integers, Sequences, FiniteSets, TLC

\* ------------------------------------------------------------------ bounds
NumBulbs   == 2     \* Bulb instances the application may construct
MaxOps     == 3     \* waiting-form sends accepted over a run
MaxNotifId == 1     \* distinct notification ids a device may use
MaxReplies == 3     \* state reports accepted in one discovery window
MaxUserOps == 2     \* correlated requests issued in SpecUser

Bulbs == 1 .. NumBulbs
Addrs == 1 .. NumBulbs          \* network addresses; device k lives at k
Address(b) == b                 \* this.address of instance b
Mac(b) == 100 + b               \* this.macIdentifier of instance b
NoId == 0                       \* "id" absent from a payload
NoMac == 0

\* -------------------------------------------------------------- WikariState
IDLE == "IDLE"
BINDING == "BINDING"
READY == "READY"
CLOSED == "CLOSED"
AWAITING_RESPONSE == "AWAITING_RESPONSE"
WikariState == {IDLE, BINDING, READY, CLOSED, AWAITING_RESPONSE}

\* ------------------------------------------------------------ wire payloads
Methods == {"getPilot", "setPilot", "registration", "syncPilot"}
NoMethod == "none"

\* A received datagram body.  kind: "garbage" = bytes JSON.parse rejects,
\* "primitive" = JSON that is not an object (a number, null), "object".
\* shape names the response template the object satisfies ("other": none).
\* on: result.state of a state report ("none": the payload has no such field).
Payloads ==
    { [kind |-> "garbage", method |-> NoMethod, err |-> FALSE, shape |-> "other", id |-> NoId, on |-> "none"],
      [kind |-> "primitive", method |-> NoMethod, err |-> FALSE, shape |-> "other", id |-> NoId, on |-> "none"] }
    \cup
    { [kind |-> "object", method |-> m, err |-> e, shape |-> "other", id |-> NoId, on |-> "none"] :
        m \in Methods \cup {NoMethod}, e \in BOOLEAN }
    \cup
    { [kind |-> "object", method |-> "getPilot", err |-> FALSE, shape |-> "pilot",
       id |-> NoId, on |-> o] : o \in {"on", "off"} }
    \cup
    { [kind |-> "object", method |-> "setPilot", err |-> FALSE, shape |-> "ack",
       id |-> NoId, on |-> "none"] }
    \cup
    { [kind |-> "object", method |-> m, err |-> FALSE, shape |-> "sync", id |-> i, on |-> "none"] :
        m \in {"syncPilot", "getPilot"}, i \in 0 .. MaxNotifId }

\* checkType(template, obj): false for non-objects, else the structural match
checkType(template, p) ==
    IF p.kind # "object" THEN FALSE ELSE p.shape = template

\* a datagram the client puts on the wire
\* on: the state parameter that toggle puts in its setPilot ("none": a message
\* whose parameters the model does not look at)
Dgram(to, method, id, mac) ==
    [to |-> to, method |-> method, id |-> id, mac |-> mac, on |-> "none"]

VARIABLES
    state,      \* Bulb._state
    created,    \* Bulb instances constructed so far
    sock,       \* Bulb.client: "new", "binding", "listening", "failed", "closed"
    ops,        \* promises returned by sendWithWait, in creation order
    ackL,       \* ackL[b]: acknowledgement listeners installed by b.subscribe
    userL,      \* userL[b]: listeners installed by b.onMessage and b.onSync
    res,        \* what the step just taken returned or settled a promise with
    sentNow,    \* datagrams handed to client.send by the step just taken
    calledNow,  \* application callbacks invoked by the step just taken
    apiNow,     \* <<i, outcome>>: what the API call that awaited promise i did
                \* with the reply that resolved the promise in the step just taken
    dPhase,     \* discover(): "idle", "window", "done", "crashed"
    dBulbs,     \* discover(): addresses of the Bulbs pushed, in order
    dSeen       \* discover(): addresses that sent a valid state report

vars == <<state, created, sock, ops, ackL, userL, res, sentNow, calledNow, apiNow,
         dPhase, dBulbs, dSeen>>
coreVars == <<state, created, sock, ops, ackL, userL>>
discVars == <<dPhase, dBulbs, dSeen>>

Pending == "pending"


Init ==
    /\ state = IDLE
    /\ created = {}
    /\ sock = "new"
    /\ ops = <<>>
    /\ ackL = [b \in Bulbs |-> 0]
    /\ userL = [b \in Bulbs |-> {}]
    /\ res = "none"
    /\ sentNow = <<>>
    /\ calledNow = {}
    /\ apiNow = {}
    /\ dPhase = "idle"
    /\ dBulbs = <<>>
    /\ dSeen = {}

\* ---------------------------------------------------------- socket life cycle

\* the process has not been ended by an exception thrown out of a listener
Alive == dPhase # "crashed"

\* a constructor that starts initClient whatever the state
constructor_rebinds ==
    state' = BINDING /\ sock' = "binding"

\* new Bulb(address, options): the first instance starts initClient.
\* Instances are numbered in the order of their construction.
constructor ==
    IF state = IDLE
      THEN state' = BINDING /\ sock' = "binding"     \* initClient()
      ELSE UNCHANGED <<state, sock>>

NewBulb(b) ==
    /\ Alive
    /\ b = Cardinality(created) + 1
    /\ created' = created \cup {b}
    /\ constructor
    /\ res' = "none"
    /\ sentNow' = <<>> /\ calledNow' = {} /\ apiNow' = {}
    /\ UNCHANGED <<ops, ackL, userL, discVars>>

\* 'listening' event: listeningCallback, then bind's callback drops both listeners
BindListening ==
    /\ Alive
    /\ sock = "binding"
    /\ sock' = "listening"
    /\ state' = READY
    /\ res' = "none"
    /\ sentNow' = <<>> /\ calledNow' = {} /\ apiNow' = {}
    /\ UNCHANGED <<created, ops, ackL, userL, discVars>>

\* 'error' event while binding: errorCallback drops listeningCallback and rejects
BindError ==
    /\ Alive
    /\ sock = "binding"
    /\ sock' = "failed"
    /\ res' = "SocketBindFailed"
    /\ sentNow' = <<>> /\ calledNow' = {} /\ apiNow' = {}
    /\ UNCHANGED <<state, created, ops, ackL, userL, discVars>>

\* ------------------------------------------------------- sending (bulb.ts)

\* isReadyToSend applying its AWAITING_RESPONSE test to every send
isReadyToSend_gatesEverySend(st, waitForResponse) ==
    IF st \in {BINDING, CLOSED, AWAITING_RESPONSE} THEN "InvalidBulbState" ELSE "ok"

\* isReadyToSend without its AWAITING_RESPONSE test
isReadyToSend_noAwaitingTest(st, waitForResponse) ==
    IF st = BINDING \/ st = CLOSED THEN "InvalidBulbState" ELSE "ok"

\* isReadyToSend(waitForResponse): "ok" stands for returning undefined.
\* IDLE falls through every test, exactly as in the code.
isReadyToSend(st, waitForResponse) ==
    IF st # READY
      THEN IF st = BINDING THEN "InvalidBulbState"
           ELSE IF st = CLOSED THEN "InvalidBulbState"
           ELSE IF st = AWAITING_RESPONSE /\ waitForResponse THEN "InvalidBulbState"
           ELSE "ok"
      ELSE "ok"

\* the message a call puts on the wire; registration carries phoneMac
Outgoing(b, method) ==
    Dgram(Address(b), method, NoId, IF method = "registration" THEN Mac(b) ELSE NoMac)

\* the promise created by sendWithWait: whether it is unsettled, and whether
\* its message listener is registered, its timer armed and its send callback
\* still to come.  The outcome a promise settles with is reported in res
\* by the step that settles it.
NewOp(b, method, api, open) ==
    [b |-> b, method |-> method, api |-> api,
     pend |-> open, lis |-> TRUE, tmr |-> open, cb |-> open]

\* sendWithWait(message).  client.send throws on a socket that is not running;
\* the throw happens inside the promise executor, after the state change and
\* the listener registration and before the timer is set.
sendWithWait(b, method, api) ==
    /\ Len(ops) < MaxOps
    /\ state' = AWAITING_RESPONSE
    /\ ops' = Append(ops, NewOp(b, method, api, sock = "listening"))
    /\ sentNow' = IF sock = "listening" THEN <<Outgoing(b, method)>> ELSE <<>>
    /\ calledNow' = {} /\ apiNow' = {}
    /\ UNCHANGED <<created, sock, ackL, userL>>

\* sendWithoutWaiting(message): its send callback only settles the returned
\* promise, which nothing else in the program observes.
sendWithoutWaiting(b, method) ==
    /\ sentNow' = IF sock = "listening" THEN <<Outgoing(b, method)>> ELSE <<>>
    /\ calledNow' = {} /\ apiNow' = {}
    /\ UNCHANGED coreVars

\* sendRaw(message, waitForResponse) called on behalf of the API function api
sendRaw(b, method, waitForResponse, api) ==
    LET error == isReadyToSend(state, waitForResponse)
    IN /\ res' = IF error # "ok" THEN error
                 ELSE IF sock # "listening" THEN "SocketNotRunning"
                 ELSE IF waitForResponse THEN Pending ELSE "sent"
       /\ IF error # "ok"
            THEN sentNow' = <<>> /\ calledNow' = {} /\ apiNow' = {} /\ UNCHANGED coreVars
            ELSE IF waitForResponse
                   THEN sendWithWait(b, method, api)
                   ELSE sendWithoutWaiting(b, method)
       /\ UNCHANGED discVars

\* application calls bulb.sendRaw directly
SendRawCall(b, method, waitForResponse) ==
    /\ b \in created
    /\ sendRaw(b, method, waitForResponse, "sendRaw")

\* bulb.getPilot()
GetPilot(b) ==
    /\ b \in created
    /\ sendRaw(b, "getPilot", TRUE, "getPilot")

\* bulb.onMessage(fn), bulb.onSync(fn): k names which; each is registered at
\* most once per instance
On(b, k) ==
    /\ b \in created
    /\ k \notin userL[b]
    /\ userL' = [userL EXCEPT ![b] = @ \cup {k}]
    /\ res' = "none"
    /\ sentNow' = <<>> /\ calledNow' = {} /\ apiNow' = {}
    /\ UNCHANGED <<state, created, sock, ops, ackL, discVars>>

\* bulb.subscribe(networkInterface); ipOk: ipAddress() found a local address
Subscribe(b, ipOk) ==
    /\ b \in created
    /\ IF ipOk
         THEN sendRaw(b, "registration", TRUE, "subscribe")
         ELSE /\ res' = "NoLocalIp"
              /\ sentNow' = <<>> /\ calledNow' = {} /\ apiNow' = {}
              /\ UNCHANGED <<coreVars, discVars>>

\* ------------------------------------------------- command wrappers (bulb.ts)

\* documented ranges of the numeric Pilot fields (types.ts, pilotTemplate)
Fields == {"sceneId", "speed", "dimming", "temp", "r", "g", "b", "c", "w"}
DocLo(f) == CASE f = "sceneId" -> 1
              [] f = "speed"   -> 1
              [] f = "dimming" -> 1
              [] f = "temp"    -> 1000
              [] OTHER         -> 0
DocHi(f) == CASE f = "sceneId" -> 32
              [] f = "speed"   -> 100
              [] f = "dimming" -> 100
              [] f = "temp"    -> 10000
              [] OTHER         -> 255

\* every field of the pilot lies in its documented range
DocOk(pilot) == \A f \in DOMAIN pilot : DocLo(f) <= pilot[f] /\ pilot[f] <= DocHi(f)

\* argument values tried for a field: both limits and their outer neighbours
Probe(f) == {DocLo(f) - 1, DocLo(f), DocHi(f), DocHi(f) + 1}

\* scene(sceneId, args): range tests on sceneId and on speed / dimming
sceneCheck(pilot) ==
    IF pilot["sceneId"] < 1 \/ pilot["sceneId"] > 32 THEN "ArgumentOutOfRange"
    ELSE IF \E key \in DOMAIN pilot \cap {"speed", "dimming"} :
               pilot[key] < 1 \/ pilot[key] > 100
           THEN "ArgumentOutOfRange"
    ELSE "ok"

\* brightness(brightness)
brightnessCheck(pilot) ==
    IF pilot["dimming"] < 0 \/ pilot["dimming"] > 100 THEN "ArgumentOutOfRange" ELSE "ok"

\* white(temp)
whiteCheck(pilot) ==
    IF pilot["temp"] < 1000 \/ pilot["temp"] > 10000 THEN "ArgumentOutOfRange" ELSE "ok"

\* color(color), object form: every entry of the object is range-tested
colorCheck(pilot) ==
    IF \E key \in DOMAIN pilot : pilot[key] < 0 \/ pilot[key] > 255
      THEN "ArgumentOutOfRange" ELSE "ok"

\* setPilot(pilot) and turn(state) test nothing
CmdCheck(api, pilot) ==
    CASE api = "scene"      -> sceneCheck(pilot)
      [] api = "brightness" -> brightnessCheck(pilot)
      [] api = "white"      -> whiteCheck(pilot)
      [] api = "color"      -> colorCheck(pilot)
      [] OTHER              -> "ok"

\* the calls tried: api and the Pilot fields its arguments stand for
CmdCalls ==
    { [api |-> "brightness", pilot |-> ("dimming" :> v)] : v \in Probe("dimming") }
    \cup { [api |-> "white", pilot |-> ("temp" :> v)] : v \in Probe("temp") }
    \cup { [api |-> "color", pilot |-> (k :> v)] : k \in {"r", "g", "b", "c", "w"}, v \in Probe("r") }
    \cup { [api |-> "scene", pilot |-> ("sceneId" :> v)] : v \in Probe("sceneId") }
    \cup { [api |-> "scene", pilot |-> ("sceneId" :> 1) @@ (k :> v)] :
             k \in {"speed", "dimming"}, v \in Probe("speed") }
    \cup UNION { { [api |-> "setPilot", pilot |-> (f :> v)] : v \in Probe(f) } : f \in Fields }

\* setPilot(pilot)
setPilot(b) == sendRaw(b, "setPilot", TRUE, "setPilot")

\* scene / brightness / white / color / setPilot: the range test, then setPilot
Command(b, c) ==
    /\ b \in created
    /\ IF CmdCheck(c.api, c.pilot) # "ok"
         THEN /\ res' = CmdCheck(c.api, c.pilot)
              /\ sentNow' = <<>> /\ calledNow' = {} /\ apiNow' = {}
              /\ UNCHANGED <<coreVars, discVars>>
         ELSE setPilot(b)

\* color("#rrggbb"): hexToRgb yields components 0..255 or an Error that is thrown
ColorHex(b, validHex) ==
    /\ b \in created
    /\ IF validHex
         THEN setPilot(b)
         ELSE /\ res' = "InvalidHex"
              /\ sentNow' = <<>> /\ calledNow' = {} /\ apiNow' = {}
              /\ UNCHANGED <<coreVars, discVars>>

\* turn(state)
Turn(b) ==
    /\ b \in created
    /\ setPilot(b)

\* bulb.toggle() up to its await of getPilot
Toggle(b) ==
    /\ b \in created
    /\ sendRaw(b, "getPilot", TRUE, "toggle")

\* ------------------------------------------------ callbacks of the correlator

\* messageListener without its test of the method name
Matches_anyMethod(op, addr, p) ==
    /\ op.lis
    /\ addr = Address(op.b)
    /\ p.kind = "object"

\* messageListener accepts the datagram as the reply
Matches(op, addr, p) ==
    /\ op.lis
    /\ addr = Address(op.b)
    /\ p.kind = "object"
    /\ (p.method # NoMethod => p.method = op.method)

\* JSON.parse, or the `in` test on a non-object, throws inside messageListener
ParseFails(op, addr, p) ==
    /\ op.lis
    /\ addr = Address(op.b)
    /\ p.kind # "object"

\* messageListener whose catch block swallows the failure
messageListener_dropsUndecodable(op, addr, p) ==
    IF Matches(op, addr, p)
      THEN [op EXCEPT !.tmr = FALSE, !.lis = FALSE, !.pend = FALSE]
    ELSE op

\* messageListener that settles on a reply without client.off
messageListener_keepsListening(op, addr, p) ==
    IF Matches(op, addr, p)
      THEN [op EXCEPT !.tmr = FALSE, !.pend = FALSE]
    ELSE IF ParseFails(op, addr, p)
      THEN [op EXCEPT !.pend = FALSE]
    ELSE op

\* messageListener(msg, rinfo) of one sendWithWait promise; resolve and reject
\* act on an unsettled promise only
messageListener(op, addr, p) ==
    IF Matches(op, addr, p)
      THEN [op EXCEPT !.tmr = FALSE, !.lis = FALSE, !.pend = FALSE]
    ELSE IF ParseFails(op, addr, p)
      THEN [op EXCEPT !.pend = FALSE]
    ELSE op

\* what messageListener settles an unsettled promise with
listenerOutcome(op, addr, p) ==
    IF Matches(op, addr, p)
      THEN IF p.err THEN "BulbReturnedFailure" ELSE "resolved"
    ELSE IF ParseFails(op, addr, p) THEN "ResponseParseFailed"
    ELSE "none"

\* the listener added by subscribe of instance b, run n times
RECURSIVE Repeat(_, _)
Repeat(d, n) == IF n = 0 THEN <<>> ELSE <<d>> \o Repeat(d, n - 1)

ackListener(b, st, p) ==
    IF checkType("sync", p) /\ isReadyToSend(st, FALSE) = "ok"
      THEN <<Dgram(Address(b), "syncPilot", p.id, Mac(b))>>
      ELSE <<>>

RECURSIVE AcksUpTo(_, _, _)
AcksUpTo(n, st, p) ==
    IF n = 0 THEN <<>>
    ELSE AcksUpTo(n - 1, st, p)
         \o (IF ackListener(n, st, p) = <<>> THEN <<>>
             ELSE Repeat(ackListener(n, st, p)[1], ackL[n]))

\* subscribe going on to install its listener however the registration ended
Subscribed_onAnyOutcome(b, old, addr, p) ==
    Cardinality({ i \in DOMAIN old :
        /\ old[i].b = b /\ old[i].api = "subscribe"
        /\ old[i].pend /\ listenerOutcome(old[i], addr, p) # "none" })

\* subscribe resumes after its registration promise resolved
Subscribed(b, old, addr, p) ==
    Cardinality({ i \in DOMAIN old :
        /\ old[i].b = b /\ old[i].api = "subscribe"
        /\ old[i].pend /\ listenerOutcome(old[i], addr, p) = "resolved" })

\* the outcome the datagram gives the promises it settles ("none": it settles none)
DatagramOutcome(addr, p) ==
    IF \E i \in DOMAIN ops : ops[i].pend /\ listenerOutcome(ops[i], addr, p) # "none"
      THEN listenerOutcome(ops[CHOOSE i \in DOMAIN ops :
                ops[i].pend /\ listenerOutcome(ops[i], addr, p) # "none"], addr, p)
      ELSE "none"

\* the listeners added by onMessage and onSync of instance b: the callbacks
\* of b they invoke on the datagram.  JSON.parse accepts a primitive.
userListener(b, k, addr, p) ==
    /\ addr = Address(b)
    /\ p.kind # "garbage"
    /\ (k = "onSync" => checkType("sync", p))

Callbacks(addr, p) ==
    { <<b, k>> \in Bulbs \X {"onMessage", "onSync"} :
        k \in userL[b] /\ userListener(b, k, addr, p) }

\* the template that getPilot, setPilot and toggle (through getPilot) hold the
\* reply against
ResponseTemplate(api) == IF api = "setPilot" THEN "ack" ELSE "pilot"

\* the promises of sendWithWait that the datagram resolves
Resolved(addr, p) ==
    { i \in DOMAIN ops : ops[i].pend /\ listenerOutcome(ops[i], addr, p) = "resolved" }

\* the toggle calls whose getPilot returned the reply; they resume in the
\* order of their promises, and the first to call setPilot finds READY
Togglers(addr, p) ==
    { i \in Resolved(addr, p) : ops[i].api = "toggle" /\ checkType("pilot", p) }

FirstToggler(addr, p) ==
    CHOOSE i \in Togglers(addr, p) : \A j \in Togglers(addr, p) : i <= j

\* getPilot and setPilot returning whatever reply resolved the request
apiOutcome_noValidation(i, addr, p) ==
    IF ops[i].api = "toggle"
      THEN IF ~checkType("pilot", p) THEN "ResponseValidationFailed"
           ELSE IF i = FirstToggler(addr, p) THEN "setPilot" ELSE "InvalidBulbState"
    ELSE "resolved"

\* what the API call that awaited promise i does with the reply: getPilot and
\* setPilot return it ("resolved") or throw ResponseValidationFailed; toggle
\* goes on to setPilot, which sendRaw rejects once the state is no longer READY
apiOutcome(i, addr, p) ==
    IF ops[i].api \in {"getPilot", "setPilot", "toggle"}
         /\ ~checkType(ResponseTemplate(ops[i].api), p)
      THEN "ResponseValidationFailed"
    ELSE IF ops[i].api = "toggle"
      THEN IF i = FirstToggler(addr, p) THEN "setPilot" ELSE "InvalidBulbState"
    ELSE "resolved"

\* toggle passing on the reported state unchanged
Negated_same(on) == on

\* { state: !pilot.result.state }
Negated(on) == IF on = "on" THEN "off" ELSE "on"

\* the setPilot message of toggle
ToggleMsg(b, on) == [Outgoing(b, "setPilot") EXCEPT !.on = Negated(on)]

\* 'message' event on Bulb.client: every registered listener runs on it, then
\* the API calls whose promise was resolved resume
Datagram(addr, p) ==
    LET heard == [i \in DOMAIN ops |-> messageListener(ops[i], addr, p)]
        acks == AcksUpTo(NumBulbs, state, p)
    IN
    /\ sock = "listening"
    /\ res' = DatagramOutcome(addr, p)
    /\ UNCHANGED <<created, sock, userL, discVars>>
    /\ IF Togglers(addr, p) = {}
         THEN /\ ops' = heard
              /\ state' = IF \E i \in DOMAIN ops : Matches(ops[i], addr, p)
                             THEN READY ELSE state
              /\ sentNow' = acks
         ELSE /\ Len(ops) < MaxOps
              /\ ops' = Append(heard, NewOp(ops[FirstToggler(addr, p)].b,
                                            "setPilot", "setPilot", TRUE))
              /\ state' = AWAITING_RESPONSE
              /\ sentNow' = acks \o <<ToggleMsg(ops[FirstToggler(addr, p)].b, p.on)>>
    /\ calledNow' = Callbacks(addr, p)
    /\ apiNow' = { <<i, apiOutcome(i, addr, p)>> : i \in Resolved(addr, p) }
    /\ ackL' = [b \in Bulbs |-> ackL[b] + Subscribed(b, ops, addr, p)]

\* completion callback of client.send in sendWithWait
SendCallback(i, error) ==
    /\ i \in DOMAIN ops
    /\ ops[i].cb
    /\ IF error
         THEN /\ ops' = [ops EXCEPT ![i].cb = FALSE, ![i].tmr = FALSE, ![i].pend = FALSE]
              /\ state' = READY
         ELSE /\ ops' = [ops EXCEPT ![i].cb = FALSE]
              /\ UNCHANGED state
    /\ res' = IF error /\ ops[i].pend THEN "RequestSendError" ELSE "none"
    /\ sentNow' = <<>> /\ calledNow' = {} /\ apiNow' = {}
    /\ UNCHANGED <<created, sock, ackL, userL, discVars>>

\* a timeout that drops every listener of the socket, not only its own
TimerExpiry_removesAllListeners(i) ==
    /\ i \in DOMAIN ops
    /\ ops[i].tmr
    /\ ops' = [ops EXCEPT ![i].tmr = FALSE, ![i].lis = FALSE, ![i].pend = FALSE]
    /\ ackL' = [x \in Bulbs |-> 0]
    /\ res' = IF ops[i].pend THEN "RequestTimedOut" ELSE "none"
    /\ sentNow' = <<>> /\ calledNow' = {} /\ apiNow' = {}
    /\ UNCHANGED <<state, created, sock, userL, discVars>>

\* the setTimeout callback of sendWithWait
TimerExpiry(i) ==
    /\ i \in DOMAIN ops
    /\ ops[i].tmr
    /\ ops' = [ops EXCEPT ![i].tmr = FALSE, ![i].lis = FALSE, ![i].pend = FALSE]
    /\ res' = IF ops[i].pend THEN "RequestTimedOut" ELSE "none"
    /\ sentNow' = <<>> /\ calledNow' = {} /\ apiNow' = {}
    /\ UNCHANGED <<state, created, sock, ackL, userL, discVars>>

\* closeConnection()
closeConnection(b) ==
    /\ b \in created
    /\ IF state = CLOSED
         THEN /\ UNCHANGED coreVars
              /\ res' = "none"
         ELSE /\ state' = CLOSED
              /\ ops' = [i \in DOMAIN ops |-> [ops[i] EXCEPT !.lis = FALSE]]
              /\ ackL' = [x \in Bulbs |-> 0]
              /\ userL' = [x \in Bulbs |-> {}]
              /\ sock' = "closed"
              /\ UNCHANGED created
              /\ res' = IF sock = "closed" THEN "SocketNotRunning" ELSE "none"
    /\ sentNow' = <<>> /\ calledNow' = {} /\ apiNow' = {}
    /\ UNCHANGED discVars

\* --------------------------------------------------- discover (wikari-error.ts)

\* discover({addr, port, waitMs}) up to its await: a throwaway socket, the probe
\* sent on it, the listener registered, the window opened
DiscoverStart ==
    /\ dPhase \in {"idle", "done"}
    /\ dPhase' = "window"
    /\ dBulbs' = <<>>
    /\ dSeen' = {}
    /\ res' = Pending
    /\ sentNow' = <<>> /\ calledNow' = {} /\ apiNow' = {}
    /\ UNCHANGED coreVars

\* 'message' event on the throwaway socket during the window.  JSON.parse is
\* not guarded: bytes that are not JSON throw out of the listener and end the
\* process.  Every accepted state report pushes a new Bulb.
DiscoverReply(addr, p) ==
    /\ dPhase = "window"
    /\ IF p.kind = "garbage"
         THEN /\ dPhase' = "crashed"
              /\ res' = "UncaughtException"
              /\ UNCHANGED <<dBulbs, dSeen, state, sock>>
         ELSE IF checkType("pilot", p)
           THEN /\ Len(dBulbs) < MaxReplies
                /\ dBulbs' = Append(dBulbs, addr)
                /\ dSeen' = dSeen \cup {addr}
                /\ constructor
                /\ res' = "none"
                /\ UNCHANGED dPhase
           ELSE /\ res' = "none"
                /\ UNCHANGED <<dPhase, dBulbs, dSeen, state, sock>>
    /\ sentNow' = <<>> /\ calledNow' = {} /\ apiNow' = {}
    /\ UNCHANGED <<created, ops, ackL, userL>>

\* sleep(waitMs) is over: the listener is removed, the socket closed, bulbs returned
DiscoverElapsed ==
    /\ dPhase = "window"
    /\ dPhase' = "done"
    /\ res' = "resolved"
    /\ sentNow' = <<>> /\ calledNow' = {} /\ apiNow' = {}
    /\ UNCHANGED <<dBulbs, dSeen, coreVars>>

\* methods an application passes to sendRaw directly
RawMethods == {"setPilot"}

\* the socket, the correlator and the subscription
Next ==
    \/ \E b \in Bulbs : NewBulb(b)
    \/ BindListening
    \/ BindError
    \/ \E b \in Bulbs, m \in RawMethods : SendRawCall(b, m, FALSE)
    \/ \E b \in Bulbs : GetPilot(b)
    \/ \E b \in Bulbs, ipOk \in BOOLEAN : Subscribe(b, ipOk)
    \/ \E a \in Addrs, p \in Payloads : Datagram(a, p)
    \/ \E i \in 1 .. MaxOps, e \in BOOLEAN : SendCallback(i, e)
    \/ \E i \in 1 .. MaxOps : TimerExpiry(i)
    \/ \E b \in Bulbs : closeConnection(b)

Spec == Init /\ [][Next]_vars

\* the command wrappers on top of setPilot
NextCmd ==
    \/ \E b \in Bulbs : NewBulb(b)
    \/ BindListening
    \/ \E b \in Bulbs, c \in CmdCalls : Command(b, c)
    \/ \E b \in Bulbs, v \in BOOLEAN : ColorHex(b, v)
    \/ \E b \in Bulbs : Turn(b)
    \/ \E a \in Addrs, p \in Payloads : Datagram(a, p)
    \/ \E i \in 1 .. MaxOps : TimerExpiry(i)

SpecCmd == Init /\ [][NextCmd]_vars

\* discovery, next to the construction of Bulbs and the bind it starts
NextDiscover ==
    \/ DiscoverStart
    \/ \E a \in Addrs, p \in Payloads : DiscoverReply(a, p)
    \/ DiscoverElapsed
    \/ \E b \in Bulbs : NewBulb(b)
    \/ BindListening
    \/ BindError

SpecDiscover == Init /\ [][NextDiscover]_vars

\* toggle and getPilot, with the replies, timeouts and send completions of
\* their requests
NextToggle ==
    \/ \E b \in Bulbs : NewBulb(b)
    \/ BindListening
    \/ \E b \in Bulbs : Toggle(b)
    \/ \E b \in Bulbs : GetPilot(b)
    \/ \E a \in Addrs, p \in Payloads : Datagram(a, p)
    \/ \E i \in 1 .. MaxOps, error \in BOOLEAN : SendCallback(i, error)
    \/ \E i \in 1 .. MaxOps : TimerExpiry(i)

SpecToggle == Init /\ [][NextToggle]_vars

\* the application also listens with onMessage and onSync
NextUser ==
    \/ \E b \in Bulbs : NewBulb(b)
    \/ BindListening
    \/ \E b \in Bulbs, k \in {"onMessage", "onSync"} : On(b, k)
    \/ \E b \in Bulbs, m \in RawMethods : SendRawCall(b, m, FALSE)
    \/ \E b \in Bulbs : Len(ops) < MaxUserOps /\ GetPilot(b)
    \/ \E a \in Addrs, p \in Payloads : Datagram(a, p)
    \/ \E i \in 1 .. MaxOps, error \in BOOLEAN : SendCallback(i, error)
    \/ \E b \in Bulbs : closeConnection(b)

SpecUser == Init /\ [][NextUser]_vars


\* ===================================================================== claims

Unsettled == { i \in DOMAIN ops : ops[i].pend }

\* C1: in every reachable state at most one correlated (waiting-form)
\* operation is unsettled, whatever the interleaving of sends, datagrams,
\* send callbacks, timer expiries and close across the Bulb instances.
C1_AtMostOneUnsettled == Cardinality(Unsettled) <= 1

\* C2: when the timer of an unsettled correlated send fires, the send is
\* rejected with RequestTimedOut, its observer is deregistered and the shared
\* state is READY afterwards, so that a following correlated send is accepted.
C2_TimeoutRestoresReady ==
    [][\A i \in 1 .. MaxOps :
         (TimerExpiry(i) /\ ops[i].pend)
           => /\ res' = "RequestTimedOut"
              /\ ~ops'[i].lis
              /\ state' = READY
              /\ isReadyToSend(state', TRUE) = "ok"]_vars

\* C3: CLOSED is terminal: once the shared state is CLOSED no later event
\* changes it to anything else.
C3_ClosedIsTerminal == [][state = CLOSED => state' = CLOSED]_vars

\* a waiting-form send issued on instance b
WaitingSend(b) ==
    \/ GetPilot(b)
    \/ Subscribe(b, TRUE)
    \/ \E m \in Methods : SendRawCall(b, m, TRUE)

\* C4: a waiting-form send attempted while the shared state is BINDING, CLOSED
\* or AWAITING_RESPONSE is rejected with InvalidBulbState: no datagram is sent,
\* no observer or timer is registered, and the connection state and every
\* pending operation stay as they were.
C4_WaitingSendRejected ==
    [][\A b \in Bulbs :
         (state \in {BINDING, CLOSED, AWAITING_RESPONSE} /\ WaitingSend(b))
           => /\ res' = "InvalidBulbState"
              /\ sentNow' = <<>>
              /\ UNCHANGED <<state, ops, ackL, sock>>]_vars

\* C4 witness: a waiting-form send was refused while another one is unsettled
C4_Witness ==
    /\ state = AWAITING_RESPONSE
    /\ res = "InvalidBulbState"
    /\ Unsettled # {}

\* C5: while a correlated request to a device is pending, a datagram from any
\* other address leaves the request outstanding with its observer and timer
\* armed, and leaves the state AWAITING_RESPONSE.
C5_ForeignDatagramIgnored ==
    [][\A a \in Addrs, p \in Payloads, i \in 1 .. MaxOps :
         (i \in DOMAIN ops /\ ops[i].pend /\ a # Address(ops[i].b) /\ Datagram(a, p))
           => /\ ops'[i] = ops[i]
              /\ (state = AWAITING_RESPONSE => state' = AWAITING_RESPONSE)]_vars

\* C6: once subscribe of the device at an address has succeeded, each
\* notification-shaped datagram from that address triggers exactly one
\* acknowledgement, echoing the notification's id and carrying the
\* subscribed instance's macIdentifier.
C6_ExactlyOneAck ==
    [][\A a \in Addrs, p \in Payloads, b \in Bulbs :
         (Address(b) = a /\ ackL[b] > 0 /\ checkType("sync", p) /\ Datagram(a, p))
           => sentNow' = <<Dgram(a, "syncPilot", p.id, Mac(b))>>]_vars

\* C7: a notification is acknowledged only by the subscriptions of the device
\* it came from, and every acknowledgement goes back to the notification's
\* source address.
C7_AckOnlyOwnDevice ==
    [][\A a \in Addrs, p \in Payloads :
         (checkType("sync", p) /\ Datagram(a, p))
           => \A k \in 1 .. Len(sentNow') :
                /\ sentNow'[k].to = a
                /\ \E b \in Bulbs : Address(b) = a /\ sentNow'[k].mac = Mac(b)]_vars

\* C8: discover returns exactly one Bulb per distinct address that sent a
\* valid state report within the window.
C8_OneDevicePerAddress ==
    dPhase = "done" => Len(dBulbs) = Cardinality(dSeen)

\* C9: on every command operation (issued when the connection would accept
\* a send), a numeric field outside its documented range is rejected with
\* ArgumentOutOfRange and no datagram is sent.
C9_OutOfRangeRejected ==
    [][\A b \in Bulbs, c \in CmdCalls :
         (~DocOk(c.pilot) /\ isReadyToSend(state, TRUE) = "ok" /\ Command(b, c))
           => res' = "ArgumentOutOfRange" /\ sentNow' = <<>>]_vars

\* C10: as long as the connection is not closed, the shared state is
\* AWAITING_RESPONSE exactly when one correlated request is unsettled.
C10_AwaitingIffUnsettled ==
    state # CLOSED => (state = AWAITING_RESPONSE <=> Cardinality(Unsettled) = 1)

\* C11: after closeConnection has been called on any one instance (the shared
\* socket is closed), every later sendRaw, waiting or not, on every instance
\* is rejected with InvalidBulbState without handing a datagram to the
\* socket, no later step invokes an onMessage or onSync callback or sends a
\* subscription acknowledgement, and a further closeConnection changes
\* nothing.
C11_CloseEndsCommunication ==
    [][sock = "closed" =>
         /\ \A b \in Bulbs :
              (GetPilot(b) \/ \E m \in RawMethods : SendRawCall(b, m, FALSE))
                => res' = "InvalidBulbState" /\ sentNow' = <<>>
         /\ calledNow' = {}
         /\ \A k \in 1 .. Len(sentNow') : sentNow'[k].method # "syncPilot"
         /\ \A b \in Bulbs : closeConnection(b) => UNCHANGED coreVars]_vars

\* C12: a non-waiting send never changes the shared state, the pending
\* correlated operation, its listener or its timer, nor any other listener or
\* the socket; issued while the state is AWAITING_RESPONSE it passes the state
\* check, and on a running socket its datagram is sent.
C12_NonWaitingSendIsInert ==
    [][\A b \in Bulbs, m \in RawMethods :
         SendRawCall(b, m, FALSE)
           => /\ UNCHANGED <<state, ops, ackL, userL, sock>>
              /\ state = AWAITING_RESPONSE
                   => /\ res' # "InvalidBulbState"
                      /\ sock = "listening"
                           => res' = "sent" /\ sentNow' = <<Outgoing(b, m)>>]_vars

\* a non-waiting send went out while a correlated request was unsettled
C12_Witness ==
    /\ state = AWAITING_RESPONSE
    /\ Unsettled # {}
    /\ res = "sent"
    /\ Len(sentNow) = 1 /\ sentNow[1].method \in RawMethods

\* C13: while a request is pending, a decodable datagram from the target
\* address that names a different method is ignored: the request is not
\* settled, its listener stays registered, its timer stays armed and the
\* state stays AWAITING_RESPONSE.
C13_OtherMethodIgnored ==
    [][\A a \in Addrs, p \in Payloads, i \in 1 .. MaxOps :
         ( /\ i \in DOMAIN ops /\ ops[i].pend /\ state = AWAITING_RESPONSE
           /\ a = Address(ops[i].b)
           /\ p.kind = "object" /\ p.method \notin {NoMethod, ops[i].method}
           /\ Datagram(a, p) )
           => /\ ops'[i] = ops[i]
              /\ state' = AWAITING_RESPONSE]_vars

\* C14: when a decodable datagram from the target address with the request's
\* method, or with no method, reaches a pending request, its listener is
\* removed, its timer is cancelled, the state becomes READY and the request
\* resolves with the payload, or is rejected with BulbReturnedFailure when
\* the payload carries an error marker.  (A toggle that resumes on the
\* resolved request starts its setPilot from READY within the same step,
\* which then ends in AWAITING_RESPONSE.)  From then on the timer of that
\* request cannot expire and a further reply changes neither the request nor,
\* when no other request is listening, the state, and settles nothing.
C14_MatchingReplySettles ==
    [][\A i \in DOMAIN ops :
         /\ (ops[i].pend /\ ops[i].lis)
              => \A p \in Payloads :
                   ( /\ p.kind = "object" /\ p.method \in {NoMethod, ops[i].method}
                     /\ Datagram(Address(ops[i].b), p) )
                     => /\ ~ops'[i].lis /\ ~ops'[i].tmr /\ ~ops'[i].pend
                        /\ \/ state' = READY
                           \/ /\ \E j \in DOMAIN ops : <<j, "setPilot">> \in apiNow'
                              /\ Len(ops') = Len(ops) + 1
                              /\ state' = AWAITING_RESPONSE
                        /\ res' = IF p.err THEN "BulbReturnedFailure"
                                           ELSE "resolved"
         /\ (~ops[i].pend /\ ~ops[i].lis /\ ~ops[i].tmr)
              => /\ ~TimerExpiry(i)
                 /\ \/ ops'[i] = ops[i]
                    \/ \A a \in Addrs, p \in Payloads : ~Datagram(a, p)
                 /\ \/ \E j \in DOMAIN ops : ops[j].lis
                    \/ state' = state /\ res' = "none"
                    \/ \A a \in Addrs, p \in Payloads : ~Datagram(a, p)]_vars

\* a request has been resolved by its reply
C14_Witness ==
    /\ state = READY
    /\ res = "resolved"
    /\ \E i \in DOMAIN ops : ~ops[i].pend /\ ~ops[i].lis /\ ~ops[i].tmr /\ ops[i].cb

\* the outcomes a waiting send may be settled with
ListedOutcomes ==
    {"resolved", "BulbReturnedFailure", "ResponseParseFailed",
     "RequestSendError", "RequestTimedOut"}

\* C15: every waiting send that passed the state check is settled exactly
\* once with one of the listed outcomes: the step that settles it reports
\* resolved, BulbReturnedFailure, ResponseParseFailed, RequestSendError or
\* RequestTimedOut, an unsettled request keeps its timer armed (so the timer,
\* scheduled fairly, settles it at the latest), and no later step unsettles
\* it.
C15_SettledOnceWithListedOutcome ==
    [][\A i \in DOMAIN ops' :
         /\ ops'[i].pend => ops'[i].tmr
         /\ (i \in DOMAIN ops /\ ~ops[i].pend) => ~ops'[i].pend
         /\ ((i \notin DOMAIN ops \/ ops[i].pend) /\ ~ops'[i].pend)
              => res' \in ListedOutcomes]_vars

\* an unsettled request keeps its timer armed and a settled one stays settled
UnsettledHasTimer ==
    [][\A i \in DOMAIN ops' :
         /\ ops'[i].pend => ops'[i].tmr
         /\ (i \in DOMAIN ops /\ ~ops[i].pend) => ~ops'[i].pend]_vars

\* C16: while a request is pending, a datagram from the target address whose
\* bytes cannot be decoded as JSON is not ignored: it rejects the pending
\* request with ResponseParseFailed.
C16_UndecodableRejects ==
    [][\A i \in DOMAIN ops :
         ops[i].pend
           => \A p \in Payloads :
                (p.kind = "garbage" /\ Datagram(Address(ops[i].b), p))
                  => ~ops'[i].pend /\ res' = "ResponseParseFailed"]_vars

\* a request has been rejected for an undecodable datagram
C16_Witness ==
    /\ res = "ResponseParseFailed"
    /\ \E i \in DOMAIN ops : ~ops[i].pend /\ ops[i].lis /\ ops[i].tmr

\* C17: when the OS bind fails, SocketBindFailed is surfaced and the state
\* stays BINDING, and from there the caller can have the bind tried again
\* (constructing a Bulb is the only call that reaches initClient), so that
\* READY remains reachable.
C17_BindFailureRetryable ==
    [][/\ BindError => res' = "SocketBindFailed" /\ state' = BINDING
       /\ \A b \in Bulbs : (sock = "failed" /\ NewBulb(b)) => sock' = "binding"]_vars

\* C18: the OS bind is requested at most once per process, by the Bulb
\* constructed while the state is IDLE; constructing a Bulb while the state
\* is BINDING, READY, AWAITING_RESPONSE or CLOSED leaves the state and the
\* socket unchanged.
C18_BindOnce ==
    [][/\ \A b \in Bulbs :
            (state \in {BINDING, READY, AWAITING_RESPONSE, CLOSED} /\ NewBulb(b))
              => UNCHANGED <<state, sock>>
       /\ (sock' = "binding" /\ sock # "binding") => (sock = "new" /\ state = IDLE)
       /\ sock # "new" => sock' # "new"
       /\ state # IDLE => state' # IDLE]_vars

\* a second Bulb has been constructed after the first one requested the bind
C18_Witness ==
    /\ Cardinality(created) = NumBulbs
    /\ sock = "listening"
    /\ state = READY
    /\ ops = <<>>

\* C19: an acknowledgement listener is installed for an instance only by a
\* step that resolves a pending registration of that instance's subscribe; a
\* registration that is rejected installs none, and an acknowledgement is
\* sent on behalf of an instance only when a listener was installed for it.
C19_AckListenerOnlyOnSuccess ==
    [][\A b \in Bulbs :
         /\ ackL'[b] > ackL[b]
              => /\ res' = "resolved"
                 /\ \E i \in DOMAIN ops :
                      /\ ops[i].b = b /\ ops[i].api = "subscribe"
                      /\ ops[i].pend /\ ~ops'[i].pend
         /\ \A k \in 1 .. Len(sentNow') :
              (sentNow'[k].method = "syncPilot" /\ sentNow'[k].mac = Mac(b))
                => ackL[b] > 0]_vars

\* a registration has been rejected by the device and no listener installed
C19_Witness ==
    /\ res = "BulbReturnedFailure"
    /\ \E i \in DOMAIN ops :
         ops[i].api = "subscribe" /\ ~ops[i].pend /\ ackL[ops[i].b] = 0

\* C20: once installed, an acknowledgement listener is removed only by the
\* step that closes the shared socket, whatever correlated requests,
\* timeouts and failures come after it; and while it is installed every
\* notification from its device is acknowledged.
C20_AckListenerStays ==
    [][\A b \in Bulbs :
         /\ ackL'[b] < ackL[b] => (sock # "closed" /\ sock' = "closed")
         /\ ackL[b] > 0
              => \A p \in Payloads :
                   (checkType("sync", p) /\ Datagram(Address(b), p))
                     => \E k \in 1 .. Len(sentNow') :
                          sentNow'[k] = Dgram(Address(b), "syncPilot", p.id, Mac(b))]_vars

\* a notification is acknowledged after a request issued later than the
\* subscription has ended with its listener and timer gone
C20_Witness ==
    /\ Len(sentNow) > 0 /\ sentNow[1].method = "syncPilot"
    /\ \E i, j \in DOMAIN ops :
         /\ i < j
         /\ ops[i].api = "subscribe" /\ ackL[ops[i].b] > 0
         /\ ops[j].api = "getPilot" /\ ~ops[j].pend /\ ~ops[j].tmr /\ ~ops[j].lis

\* C21: whatever datagram arrives during the discovery window (a valid state
\* report, a payload of another shape, bytes that are not JSON), the
\* execution of discover stays on its way to closing the throwaway socket:
\* from the open window it can only stay in the window or reach the close;
\* and once the socket is closed no step adds a Bulb to the returned list.
C21_DiscoverySocketClosed ==
    [][/\ dPhase = "window" => dPhase' \in {"window", "done"}
       /\ (dPhase = "done" /\ dPhase' = "done") => dBulbs' = dBulbs]_vars

\* C24: once a correlated operation has settled, for whatever reason, its
\* listener is no longer registered and its timer is no longer armed; and at
\* most one sendWithWait listener is registered at any time.
C24_SettledLeavesNothing ==
    /\ \A i \in DOMAIN ops : ~ops[i].pend => (~ops[i].lis /\ ~ops[i].tmr)
    /\ Cardinality({ i \in DOMAIN ops : ops[i].lis }) <= 1

\* C26: a syncPilot notification from a subscribed device that arrives while
\* a getPilot, setPilot or registration request to that device is pending is
\* acknowledged in the same step, and it does not settle the request: the
\* request, its listener and its timer are as before and the state stays
\* AWAITING_RESPONSE.
C26_NotificationWhilePending ==
    [][\A i \in DOMAIN ops :
         ( /\ ops[i].pend /\ state = AWAITING_RESPONSE
           /\ ops[i].method \in {"getPilot", "setPilot", "registration"}
           /\ ackL[ops[i].b] > 0 )
           => \A p \in Payloads :
                ( /\ checkType("sync", p) /\ p.method = "syncPilot"
                  /\ Datagram(Address(ops[i].b), p) )
                  => /\ \E k \in 1 .. Len(sentNow') :
                          sentNow'[k] = Dgram(Address(ops[i].b), "syncPilot",
                                              p.id, Mac(ops[i].b))
                     /\ ops'[i] = ops[i]
                     /\ state' = AWAITING_RESPONSE
                     /\ res' = "none"]_vars

\* a notification has been acknowledged while a request is outstanding
C26_Witness ==
    /\ state = AWAITING_RESPONSE
    /\ \E i \in DOMAIN ops :
         /\ ops[i].pend /\ ackL[ops[i].b] > 0
         /\ Len(sentNow) > 0
         /\ sentNow[1] \in { Dgram(Address(ops[i].b), "syncPilot", n, Mac(ops[i].b)) :
                               n \in 0 .. MaxNotifId }

\* C23: whenever discover has resolved with at least one Bulb, the shared
\* state is READY, so that a getPilot issued right away passes the state
\* check.
C23_DiscoveredBulbsUsable ==
    (dPhase = "done" /\ Len(dBulbs) >= 1)
      => (state = READY /\ isReadyToSend(state, TRUE) = "ok")

\* C22: getPilot and setPilot return a reply only when it validates against
\* their response template (the state report for getPilot, the success reply
\* for setPilot); a decodable reply without error marker that is accepted for
\* the request but fails the validation makes the call throw
\* ResponseValidationFailed, and the state is READY after that step.
C22_ReplyValidated ==
    [][\A i \in DOMAIN ops :
         (ops[i].pend /\ ops[i].api \in {"getPilot", "setPilot"})
           => \A p \in Payloads :
                Datagram(Address(ops[i].b), p)
                  => /\ <<i, "resolved">> \in apiNow'
                          => checkType(IF ops[i].api = "getPilot" THEN "pilot"
                                                                  ELSE "ack", p)
                     /\ ( /\ p.kind = "object" /\ ~p.err
                          /\ p.method \in {NoMethod, ops[i].method}
                          /\ ~checkType(IF ops[i].api = "getPilot" THEN "pilot"
                                                                   ELSE "ack", p) )
                          => /\ <<i, "ResponseValidationFailed">> \in apiNow'
                             /\ res' # "BulbReturnedFailure"
                             /\ state' = READY]_vars

\* a getPilot or setPilot has thrown ResponseValidationFailed
C22_Witness ==
    /\ state = READY
    /\ \E i \in DOMAIN ops :
         /\ ops[i].api \in {"getPilot", "setPilot"}
         /\ <<i, "ResponseValidationFailed">> \in apiNow

\* a setPilot message written by toggle
IsToggleMsg(d) == d.method = "setPilot" /\ d.on # "none"

\* C25: toggle sends getPilot alone when it is called; its setPilot is sent
\* only by the step in which that getPilot request is resolved with a valid
\* state report, after the state has gone back to READY (the setPilot passes
\* the state check), to the same device and with the negation of the reported
\* state; and when the getPilot request ends in any other way no setPilot is
\* sent.
C25_ToggleInSequence ==
    [][/\ \A b \in Bulbs :
            (Toggle(b) /\ res' = Pending) => sentNow' = <<Outgoing(b, "getPilot")>>
       /\ \A k \in 1 .. Len(sentNow') :
            IsToggleMsg(sentNow'[k])
              => \E i \in DOMAIN ops, p \in Payloads :
                   /\ ops[i].api = "toggle" /\ ops[i].pend /\ ~ops'[i].pend
                   /\ checkType("pilot", p) /\ p.method \in {NoMethod, "getPilot"}
                   /\ Datagram(Address(ops[i].b), p)
                   /\ <<i, "setPilot">> \in apiNow'
                   /\ sentNow'[k].to = Address(ops[i].b)
                   /\ sentNow'[k].on = (IF p.on = "on" THEN "off" ELSE "on")
                   /\ state' = AWAITING_RESPONSE
                   /\ \A j \in 1 .. Len(sentNow') : IsToggleMsg(sentNow'[j]) => j = k
       /\ \A i \in DOMAIN ops :
            ( /\ ops[i].api = "toggle" /\ ops[i].pend /\ ~ops'[i].pend
              /\ <<i, "setPilot">> \notin apiNow'
              /\ <<i, "InvalidBulbState">> \notin apiNow' )
              => \A k \in 1 .. Len(sentNow') : ~IsToggleMsg(sentNow'[k])]_vars

\* toggle has sent its setPilot after its getPilot was answered
C25_Witness ==
    /\ state = AWAITING_RESPONSE
    /\ res = "resolved"
    /\ \E k \in 1 .. Len(sentNow) : IsToggleMsg(sentNow[k])
    /\ \E i \in DOMAIN ops : ops[i].api = "toggle" /\ <<i, "setPilot">> \in apiNow

================================================================================
